---- MODULE Spec2Model ----
(***************************************************************************)
(* Model of roggerzilla/monkeyh: the persistent priority job queue and the *)
(* account ledger of src/database.py, as used by the worker pool and by    *)
(* the payment webhook of src/stripe_server.py.                            *)
(*                                                                         *)
(* Every function of database.py is a sequence of blocking calls to the    *)
(* storage service (Supabase/PostgREST).  One storage call (.execute()) is *)
(* one atomic step; the callers are independent OS processes (bot workers, *)
(* webhook server workers), so the steps of different callers interleave.  *)
(* The storage service is modelled by its documented contract: a filtered  *)
(* update changes exactly the rows that match all of its eq() filters at   *)
(* the instant it runs, and an ordered select with limit(1) returns one    *)
(* row that is minimal for the ordering.                                   *)
(***************************************************************************)
EXTENDS Integers, Sequences, FiniteSets, TLC

(***************************************************************************)
(* Bounds of the model.                                                    *)
(***************************************************************************)
MaxJobs == 2          \* rows ever inserted into generation_queue_h
MaxTime == 2          \* readings of the clock: 1..MaxTime
NumWorkers == 2       \* processes polling get_next_generation_job
MaxResolves == 2      \* calls of update_generation_job_status (Spec)
FewResolves == 1      \* the same, in the specifications of the claim protocol
DrainJobs == 3        \* pending rows the drain scenario starts from
MaxUsers == 2         \* account ids: 1..MaxUsers
NumCallers == 2       \* processes calling the users_h functions
MaxPoints == 2        \* callers ask for balances within 0..MaxPoints
MaxFaults == 2        \* storage calls that fail
MaxEvents == 2        \* payment events delivered to the webhook

Workers == 1..NumWorkers
UserIds == 1..MaxUsers
Callers == 1..NumCallers

(***************************************************************************)
(* Values.                                                                 *)
(***************************************************************************)
NoTime == 0                       \* a NULL timestamp column
Null == <<>>                      \* a NULL text column
NoneJob == [id |-> 0]             \* Python None where a job row is expected
UnknownJob == 0                   \* a job id no row of the table has

TerminalStatuses == {"completed", "failed", "refunded", "canceled"}
Priorities == {1, 2}              \* priority_level values given to jobs
Workflow == <<"wf">>              \* the (opaque) workflow_content dict
UrlInputs == {Null, <<"u1">>}     \* output_files_urls: None/[] or a list
ErrInputs == {Null, <<"e1">>}     \* error_message: None or a text

NoneUser == [user_id |-> 0]       \* Python None where a users_h row is expected
NoReferrer == 0                   \* referred_by=None
Amounts == {-1, 1, 2}             \* amount of update_user_points
InitialPoints == {0, 1}           \* initial_points of add_user
ReferrerInputs == {NoReferrer, 1} \* referred_by of add_user
PriorityInputs == {0, 1, 2, 3}    \* new_priority_level of update_user_priority

\* json.dumps / json.loads: the text form of a structure is not the
\* structure; loads undoes dumps.
json_dumps(x) == <<"json">> \o x
json_loads(s) == Tail(s)

VARIABLES
    now,          \* the clock read by datetime.now() and by DEFAULT NOW()
    jobs,         \* table generation_queue_h: id -> row
    wpc,          \* per worker: position inside get_next_generation_job
    wjob,         \* per worker: the row `job` read by the phase-1 select
    wlower,       \* history, per worker: ids of the rows that were pending
                  \* when its phase-1 select ran and had a strictly smaller
                  \* (priority_level, created_at) than the row it returned
    wret,         \* per worker: what its last get_next_generation_job returned
    claimLog,     \* history: ids returned by successful claims, in order
    nResolve,     \* history: number of update_generation_job_status calls
    lastResolve,  \* history: arguments of the latest such call
    resolved,     \* history: ids of the rows such a call has updated
    staleRet,     \* what the last get_uncompleted_processing_jobs returned
    faults,       \* history: for each call whose storage call raised, in
                  \* order, the function and the value it returned
    users,        \* table users_h: user_id -> row
    lpc,          \* per caller: position inside the users_h function it runs
    lframe,       \* per caller: arguments and locals of that function
    lret,         \* per caller: what its last finished call returned
    expected,     \* history: per account, initial points plus every amount
                  \* of an update_user_points call that returned its row
    nrows,        \* history: per user_id, the inserts into users_h that the
                  \* storage accepted (the rows of the table with that id)
    hook          \* the webhook handler: its position in stripe_webhook, the
                  \* event it handles, its locals and its response

vars == <<now, jobs, wpc, wjob, wlower, wret, claimLog, nResolve, lastResolve, resolved,
          staleRet, faults, users, lpc, lframe, lret, expected, nrows, hook>>

ledgerVars == <<users, lpc, lframe, lret, expected, nrows, hook>>

queueVars == <<jobs, wpc, wjob, wlower, wret, claimLog, nResolve, lastResolve, resolved,
               staleRet, faults>>

NoResolve == [job_id |-> 0, status |-> "", urls |-> Null, err |-> Null]

Rows == {jobs[i] : i \in DOMAIN jobs}

(***************************************************************************)
(* add_generation_job: the inserted row.  id and created_at are column     *)
(* defaults of the table; the timestamps, output_files_urls and            *)
(* error_message start NULL.                                               *)
(***************************************************************************)
NewJobRow(id, priority_level, created_at) ==
    [id |-> id,
     status |-> "pending",
     priority_level |-> priority_level,
     created_at |-> created_at,
     started_at |-> NoTime,
     completed_at |-> NoTime,
     output_files_urls |-> Null,
     error_message |-> Null,
     workflow_content |-> json_dumps(Workflow)]

add_generation_job(priority_level) ==
    /\ Cardinality(DOMAIN jobs) < MaxJobs
    /\ LET id == Cardinality(DOMAIN jobs) + 1
       IN jobs' = (id :> NewJobRow(id, priority_level, now)) @@ jobs
    /\ UNCHANGED <<now, wpc, wjob, wlower, wret, claimLog, nResolve, lastResolve,
                   resolved, staleRet, faults>>
    /\ UNCHANGED ledgerVars

(***************************************************************************)
(* get_next_generation_job, phase 1: the select.                           *)
(***************************************************************************)
\* .eq('status', 'pending')
PendingFilterAll(row) == TRUE
PendingFilter(row) == row.status = "pending"

\* .order('priority_level', asc).order('created_at', asc): a sorts before b
OrderBeforeCreatedOnly(a, b) == a.created_at < b.created_at
OrderBefore(a, b) ==
    \/ a.priority_level < b.priority_level
    \/ /\ a.priority_level = b.priority_level
       /\ a.created_at < b.created_at

\* .limit(1): the rows the select may return (rows equal in both order
\* columns come in an order the storage does not promise)
SelectAnyPending(rows) == {r \in rows : PendingFilter(r)}
SelectNext(rows) ==
    LET cand == {r \in rows : PendingFilter(r)}
    IN {r \in cand : \A o \in cand : ~OrderBefore(o, r)}

\* a has a strictly smaller (priority_level, created_at) than b
KeyLess(a, b) ==
    \/ a.priority_level < b.priority_level
    \/ a.priority_level = b.priority_level /\ a.created_at < b.created_at

ClaimQuery(w) ==
    /\ wpc[w] = "idle"
    /\ IF SelectNext(Rows) = {}
       THEN /\ wret' = [wret EXCEPT ![w] = NoneJob]
            /\ UNCHANGED <<wpc, wjob, wlower>>
       ELSE /\ \E r \in SelectNext(Rows) : wjob' = [wjob EXCEPT ![w] = r]
            /\ wpc' = [wpc EXCEPT ![w] = "update"]
            /\ wlower' = [wlower EXCEPT ![w] =
                             {i \in DOMAIN jobs : /\ jobs[i].status = "pending"
                                                  /\ KeyLess(jobs[i], wjob'[w])}]
            /\ wret' = [wret EXCEPT ![w] = NoneJob]
    /\ UNCHANGED <<now, jobs, claimLog, nResolve, lastResolve, resolved, staleRet,
                   faults>>
    /\ UNCHANGED ledgerVars

(***************************************************************************)
(* get_next_generation_job, phase 2: the conditional update.               *)
(***************************************************************************)
\* .eq('id', job_id).eq('status', 'pending')
ClaimFilterIdOnly(row, job_id) == row.id = job_id
ClaimFilter(row, job_id) == row.id = job_id /\ row.status = "pending"

\* the else branch: update_response.data is empty, the call returns None
ClaimLostReturnsJob(w) ==
    wret' = [wret EXCEPT ![w] = [wjob[w] EXCEPT !.workflow_content = json_loads(@)]]
ClaimLost(w) ==
    wret' = [wret EXCEPT ![w] = NoneJob]

ClaimUpdate(w) ==
    /\ wpc[w] = "update"
    /\ LET job_id == wjob[w].id
           hit == {i \in DOMAIN jobs : ClaimFilter(jobs[i], job_id)}
       IN /\ jobs' = [i \in DOMAIN jobs |->
                        IF i \in hit
                        THEN [jobs[i] EXCEPT !.status = "processing",
                                             !.started_at = now]
                        ELSE jobs[i]]
          /\ IF hit # {}
             THEN /\ wret' = [wret EXCEPT ![w] =
                        [wjob[w] EXCEPT !.workflow_content = json_loads(@)]]
                  /\ claimLog' = Append(claimLog, job_id)
             ELSE /\ ClaimLost(w)
                  /\ UNCHANGED claimLog
    /\ wpc' = [wpc EXCEPT ![w] = "idle"]
    /\ wjob' = [wjob EXCEPT ![w] = NoneJob]
    /\ wlower' = [wlower EXCEPT ![w] = {}]
    /\ UNCHANGED <<now, nResolve, lastResolve, resolved, staleRet, faults>>
    /\ UNCHANGED ledgerVars

(***************************************************************************)
(* update_generation_job_status                                            *)
(***************************************************************************)
update_data(status, output_files_urls, error_message, row) ==
    LET r1 == [row EXCEPT !.status = status]
    IN IF status = "completed"
       THEN LET r2 == [r1 EXCEPT !.completed_at = now]
            IN IF output_files_urls # Null
               THEN [r2 EXCEPT !.output_files_urls = json_dumps(output_files_urls)]
               ELSE r2
       ELSE IF status \in {"failed", "refunded", "canceled"}
            THEN [r1 EXCEPT !.error_message = error_message,
                            !.completed_at = now]
            ELSE r1

update_generation_job_status(job_id, status, output_files_urls, error_message) ==
    /\ jobs' = [i \in DOMAIN jobs |->
                  IF i = job_id
                  THEN update_data(status, output_files_urls, error_message, jobs[i])
                  ELSE jobs[i]]
    /\ nResolve' = nResolve + 1
    /\ lastResolve' = [job_id |-> job_id, status |-> status,
                       urls |-> output_files_urls, err |-> error_message]
    /\ resolved' = resolved \cup (DOMAIN jobs \cap {job_id})
    /\ UNCHANGED <<now, wpc, wjob, wlower, wret, claimLog, staleRet, faults>>
    /\ UNCHANGED ledgerVars

(***************************************************************************)
(* get_uncompleted_processing_jobs                                         *)
(***************************************************************************)
ProcessingFilterNotCompleted(row) == row.status # "completed"
ProcessingFilter(row) == row.status = "processing"

get_uncompleted_processing_jobs ==
    /\ staleRet' = {r.id : r \in {x \in Rows : ProcessingFilter(x)}}
    /\ UNCHANGED <<now, jobs, wpc, wjob, wlower, wret, claimLog, nResolve,
                   lastResolve, resolved, faults>>
    /\ UNCHANGED ledgerVars

(***************************************************************************)
(* Storage failures: the .execute() of a function raises (the service is   *)
(* unreachable or refuses the request) and changes no row.  Each function  *)
(* catches the exception, logs it and returns.                             *)
(***************************************************************************)
PyNone == "None"              \* Python None where a plain value is expected

\* except branch of add_generation_job: return None
add_generation_job_raise ==
    /\ faults' = Append(faults, [op |-> "add_generation_job", ret |-> PyNone])
    /\ UNCHANGED <<now, jobs, wpc, wjob, wlower, wret, claimLog, nResolve,
                   lastResolve, resolved, staleRet>>
    /\ UNCHANGED ledgerVars

\* except branch of get_next_generation_job, entered from the select
ClaimQueryRaise(w) ==
    /\ wpc[w] = "idle"
    /\ wret' = [wret EXCEPT ![w] = NoneJob]
    /\ faults' = Append(faults, [op |-> "get_next_generation_job", ret |-> wret'[w]])
    /\ UNCHANGED <<now, jobs, wpc, wjob, wlower, claimLog, nResolve, lastResolve,
                   resolved, staleRet>>
    /\ UNCHANGED ledgerVars

\* except branch of get_next_generation_job, entered from the update
ClaimUpdateRaise(w) ==
    /\ wpc[w] = "update"
    /\ wret' = [wret EXCEPT ![w] = NoneJob]
    /\ wpc' = [wpc EXCEPT ![w] = "idle"]
    /\ wjob' = [wjob EXCEPT ![w] = NoneJob]
    /\ wlower' = [wlower EXCEPT ![w] = {}]
    /\ faults' = Append(faults, [op |-> "get_next_generation_job", ret |-> wret'[w]])
    /\ UNCHANGED <<now, jobs, claimLog, nResolve, lastResolve, resolved, staleRet>>
    /\ UNCHANGED ledgerVars

\* update_generation_job_status has no return statement: a call evaluates
\* to None whether its update ran or raised
ResolveReturn == PyNone

update_generation_job_status_raise(job_id, status, output_files_urls, error_message) ==
    /\ nResolve' = nResolve + 1
    /\ lastResolve' = [job_id |-> job_id, status |-> status,
                       urls |-> output_files_urls, err |-> error_message]
    /\ faults' = Append(faults, [op |-> "update_generation_job_status",
                                 ret |-> ResolveReturn])
    /\ UNCHANGED <<now, jobs, wpc, wjob, wlower, wret, claimLog, resolved, staleRet>>
    /\ UNCHANGED ledgerVars

(***************************************************************************)
(* users_h: get_user and the three functions built on it.  Each function   *)
(* is called (its arguments bound), reads the row with get_user, and then  *)
(* either returns or issues its insert/update: one step per storage call.  *)
(***************************************************************************)
NoFrame ==
    [user_id |-> 0, amount |-> 0, referred_by |-> NoReferrer,
     new_priority_level |-> 0, user |-> NoneUser]

NoReturn == [op |-> "none", user_id |-> 0, arg |-> 0, value |-> FALSE]

Return(p, op, arg, value) ==
    /\ lret' = [lret EXCEPT ![p] =
           [op |-> op, user_id |-> lframe[p].user_id, arg |-> arg, value |-> value]]
    /\ lpc' = [lpc EXCEPT ![p] = "idle"]
    /\ lframe' = [lframe EXCEPT ![p] = NoFrame]

Call(p, op, frame) ==
    /\ lpc[p] = "idle"
    /\ lpc' = [lpc EXCEPT ![p] = op]
    /\ lframe' = [lframe EXCEPT ![p] = frame]
    /\ lret' = [lret EXCEPT ![p] = NoReturn]
    /\ UNCHANGED <<users, expected, nrows>>

get_user(user_id) ==
    IF user_id \in DOMAIN users THEN users[user_id] ELSE NoneUser

\* ---- add_user ----
NewUserRowPriority1(user_id, referred_by, initial_points) ==
    [user_id |-> user_id, points |-> initial_points,
     referred_by |-> referred_by, priority_level |-> 1]
NewUserRow(user_id, referred_by, initial_points) ==
    [user_id |-> user_id, points |-> initial_points,
     referred_by |-> referred_by, priority_level |-> 2]

add_user_call(p, user_id, referred_by, initial_points) ==
    /\ Call(p, "add_user",
            [NoFrame EXCEPT !.user_id = user_id, !.referred_by = referred_by,
                            !.amount = initial_points])
    /\ UNCHANGED <<now, hook, queueVars>>

add_user_read(p) ==
    /\ lpc[p] = "add_user"
    /\ LET user == get_user(lframe[p].user_id)
       IN IF user # NoneUser
          THEN Return(p, "add_user", lframe[p].amount, FALSE)
          ELSE /\ lpc' = [lpc EXCEPT ![p] = "add_user_insert"]
               /\ UNCHANGED <<lframe, lret>>
    /\ UNCHANGED <<now, hook, queueVars, users, expected, nrows>>

\* user_id is the primary key of users_h: the storage refuses the insert of
\* an id the table holds
PrimaryKeyConflict(user_id) == user_id \in DOMAIN users

\* what add_user returns from its except branch
add_user_except_true == TRUE
add_user_except == FALSE

\* the insert; a refused insert raises, and add_user returns from its
\* except branch
add_user_insert(p) ==
    /\ lpc[p] = "add_user_insert"
    /\ LET f == lframe[p]
       IN IF PrimaryKeyConflict(f.user_id)
          THEN /\ Return(p, "add_user", f.amount, add_user_except)
               /\ UNCHANGED <<users, expected, nrows>>
          ELSE /\ users' = (f.user_id :> NewUserRow(f.user_id, f.referred_by, f.amount))
                              @@ users
               /\ expected' = [expected EXCEPT ![f.user_id] = f.amount]
               /\ nrows' = [nrows EXCEPT ![f.user_id] = @ + 1]
               /\ Return(p, "add_user", f.amount, TRUE)
    /\ UNCHANGED <<now, hook, queueVars>>

\* ---- update_user_points ----
new_points_overwrite(user, amount) == amount
new_points(user, amount) == user.points + amount

update_user_points_call(p, user_id, amount) ==
    /\ user_id \in DOMAIN users =>
          /\ users[user_id].points + amount \in 0..MaxPoints
          /\ expected[user_id] + amount \in 0..MaxPoints
    /\ Call(p, "update_user_points",
            [NoFrame EXCEPT !.user_id = user_id, !.amount = amount])
    /\ UNCHANGED <<now, hook, queueVars>>

update_user_points_read(p) ==
    /\ lpc[p] = "update_user_points"
    /\ LET user == get_user(lframe[p].user_id)
       IN IF user = NoneUser
          THEN Return(p, "update_user_points", lframe[p].amount, NoneUser)
          ELSE /\ lpc' = [lpc EXCEPT ![p] = "points_write"]
               /\ lframe' = [lframe EXCEPT ![p].user = user]
               /\ UNCHANGED lret
    /\ UNCHANGED <<now, hook, queueVars, users, expected, nrows>>

update_user_points_write(p) ==
    /\ lpc[p] = "points_write"
    /\ LET f == lframe[p]
       IN /\ users' = [users EXCEPT ![f.user_id].points = new_points(f.user, f.amount)]
          /\ expected' = [expected EXCEPT ![f.user_id] = @ + f.amount]
          /\ UNCHANGED nrows
          /\ Return(p, "update_user_points", f.amount, users'[f.user_id])
    /\ UNCHANGED <<now, hook, queueVars>>

\* ---- update_user_priority ----
IsBetterOrEqual(new_priority_level, current_priority) ==
    new_priority_level <= current_priority
IsBetter(new_priority_level, current_priority) ==
    new_priority_level < current_priority

update_user_priority_call(p, user_id, new_priority_level) ==
    /\ Call(p, "update_user_priority",
            [NoFrame EXCEPT !.user_id = user_id,
                            !.new_priority_level = new_priority_level])
    /\ UNCHANGED <<now, hook, queueVars>>

update_user_priority_read(p) ==
    /\ lpc[p] = "update_user_priority"
    /\ LET user == get_user(lframe[p].user_id)
       IN IF user = NoneUser
          THEN Return(p, "update_user_priority", lframe[p].new_priority_level, FALSE)
          ELSE IF IsBetter(lframe[p].new_priority_level, user.priority_level)
               THEN /\ lpc' = [lpc EXCEPT ![p] = "priority_write"]
                    /\ lframe' = [lframe EXCEPT ![p].user = user]
                    /\ UNCHANGED lret
               ELSE Return(p, "update_user_priority",
                           lframe[p].new_priority_level, FALSE)
    /\ UNCHANGED <<now, hook, queueVars, users, expected, nrows>>

update_user_priority_write(p) ==
    /\ lpc[p] = "priority_write"
    /\ LET f == lframe[p]
       IN /\ users' = [users EXCEPT ![f.user_id].priority_level = f.new_priority_level]
          /\ Return(p, "update_user_priority", f.new_priority_level, TRUE)
    /\ UNCHANGED <<now, hook, queueVars, expected, nrows>>

(***************************************************************************)
(* stripe_webhook, for an event whose signature was verified and whose     *)
(* type is checkout.session.completed.  The metadata values are texts; a   *)
(* text is a sequence of characters, and int() reads a non-empty sequence  *)
(* of decimal digits and raises on any other (or on None, here <<>>).      *)
(***************************************************************************)
PROJECT_IDENTIFIER == "monkeynudesbot"
POINT_PACKAGES == {"p200", "p500", "p1000"}

Digits == <<"0", "1", "2", "3", "4", "5", "6", "7", "8", "9">>

IsDigits(s) ==
    /\ Len(s) > 0
    /\ \A i \in DOMAIN s : \E d \in DOMAIN Digits : Digits[d] = s[i]

DigitValue(c) == (CHOOSE d \in DOMAIN Digits : Digits[d] = c) - 1

RECURSIVE int(_)
int(s) ==
    IF Len(s) = 1
    THEN DigitValue(s[1])
    ELSE 10 * int(SubSeq(s, 1, Len(s) - 1)) + DigitValue(s[Len(s)])

\* str() of a small natural number
str(n) == <<Digits[n + 1]>>

ProjectInputs == {PROJECT_IDENTIFIER, "otherbot"}
IdInputs == {str(u) : u \in UserIds} \cup {<<"x">>, <<>>}
PackageInputs == {"p200", "p9"}
PointsInputs == {<<"1">>, <<"x">>}
BoostInputs == {<<"1">>, <<>>}

EventInputs ==
    [project : ProjectInputs, telegram_id : IdInputs, package_id : PackageInputs,
     points_awarded : PointsInputs, priority_boost : BoostInputs]

NoEvent ==
    [project |-> "", telegram_id |-> <<>>, package_id |-> "",
     points_awarded |-> <<>>, priority_boost |-> <<>>]

NoResponse == [status_code |-> 0, status |-> ""]

NoHook ==
    [pc |-> "idle", n |-> 0, event |-> NoEvent, id |-> 0, points_awarded |-> 0,
     priority_boost |-> 0, before |-> NoneUser, notified |-> "none",
     response |-> NoResponse]

JSONResponse(status_code, status) == [status_code |-> status_code, status |-> status]

\* the caller slot of the users_h functions the handler's process uses
HookCaller == 1

\* from the request to the first storage call, or to the response when the
\* event is ignored or refused
stripe_webhook_begin(event) ==
    /\ hook.pc = "idle"
    /\ hook.n < MaxEvents
    /\ lpc[HookCaller] = "idle"
    /\ LET h == [NoHook EXCEPT !.n = hook.n + 1, !.event = event]
       IN IF event.project # PROJECT_IDENTIFIER
          THEN /\ hook' = [h EXCEPT !.response = JSONResponse(200, "ignored")]
               /\ UNCHANGED <<lpc, lframe, lret>>
          ELSE IF ~IsDigits(event.telegram_id)
          THEN /\ hook' = [h EXCEPT !.response = JSONResponse(400, "error")]
               /\ UNCHANGED <<lpc, lframe, lret>>
          ELSE LET id == int(event.telegram_id)
                   points_awarded == IF IsDigits(event.points_awarded)
                                     THEN int(event.points_awarded) ELSE 0
                   priority_boost == IF IsDigits(event.priority_boost)
                                     THEN int(event.priority_boost) ELSE 2
                   h2 == [h EXCEPT !.id = id, !.points_awarded = points_awarded,
                                   !.priority_boost = priority_boost,
                                   !.before = get_user(id)]
               IN IF event.package_id \in POINT_PACKAGES
                  THEN /\ hook' = [h2 EXCEPT !.pc = "points"]
                       /\ lpc' = [lpc EXCEPT ![HookCaller] = "update_user_points"]
                       /\ lframe' = [lframe EXCEPT ![HookCaller] =
                              [NoFrame EXCEPT !.user_id = id,
                                              !.amount = points_awarded]]
                       /\ lret' = [lret EXCEPT ![HookCaller] = NoReturn]
                  ELSE /\ hook' = [h2 EXCEPT !.response = JSONResponse(200, "ok")]
                       /\ UNCHANGED <<lpc, lframe, lret>>
    /\ UNCHANGED <<now, queueVars, users, expected, nrows>>

\* update_user_points has returned: database.update_user_priority(id, priority_boost)
stripe_webhook_priority ==
    /\ hook.pc = "points"
    /\ lpc[HookCaller] = "idle"
    /\ hook' = [hook EXCEPT !.pc = "priority"]
    /\ lpc' = [lpc EXCEPT ![HookCaller] = "update_user_priority"]
    /\ lframe' = [lframe EXCEPT ![HookCaller] =
           [NoFrame EXCEPT !.user_id = hook.id,
                           !.new_priority_level = hook.priority_boost]]
    /\ lret' = [lret EXCEPT ![HookCaller] = NoReturn]
    /\ UNCHANGED <<now, queueVars, users, expected, nrows>>

\* the table after bot.send_message raised: the except branch logs the error
SendFailedUndoesCredit(h) ==
    IF h.id \in DOMAIN users
    THEN [users EXCEPT ![h.id].points = @ - h.points_awarded]
    ELSE users
SendFailed(h) == users

\* update_user_priority has returned: the confirmation message (sent, or
\* send_message raises, or there is no bot) and the response
stripe_webhook_notify(outcome) ==
    /\ hook.pc = "priority"
    /\ lpc[HookCaller] = "idle"
    /\ hook' = [hook EXCEPT !.pc = "idle", !.notified = outcome,
                            !.response = JSONResponse(200, "ok")]
    /\ users' = IF outcome = "failed" THEN SendFailed(hook) ELSE users
    /\ UNCHANGED <<now, queueVars, lpc, lframe, lret, expected, nrows>>

(***************************************************************************)
(* The clock.                                                              *)
(***************************************************************************)
Tick ==
    /\ now < MaxTime
    /\ now' = now + 1
    /\ UNCHANGED queueVars
    /\ UNCHANGED ledgerVars

(***************************************************************************)
(* The queue: producers, the worker pool, resolvers and the recovery sweep *)
(***************************************************************************)
Init ==
    /\ now = 1
    /\ jobs = <<>>
    /\ wpc = [w \in Workers |-> "idle"]
    /\ wjob = [w \in Workers |-> NoneJob]
    /\ wlower = [w \in Workers |-> {}]
    /\ wret = [w \in Workers |-> NoneJob]
    /\ claimLog = <<>>
    /\ nResolve = 0
    /\ lastResolve = NoResolve
    /\ resolved = {}
    /\ staleRet = {}
    /\ faults = <<>>
    /\ users = <<>>
    /\ lpc = [p \in Callers |-> "idle"]
    /\ lframe = [p \in Callers |-> NoFrame]
    /\ lret = [p \in Callers |-> NoReturn]
    /\ expected = [u \in UserIds |-> 0]
    /\ nrows = [u \in UserIds |-> 0]
    /\ hook = NoHook

\* update_generation_job_status as its callers use it: on the id of a row
\* (or an id no row has), 'completed' with the result list (or none), the
\* other statuses with an error text (or none)
Resolve ==
    \/ \E j \in DOMAIN jobs \cup {UnknownJob}, u \in UrlInputs :
          update_generation_job_status(j, "completed", u, Null)
    \/ \E j \in DOMAIN jobs \cup {UnknownJob},
          s \in {"failed", "refunded", "canceled"}, e \in ErrInputs :
          update_generation_job_status(j, s, Null, e)

Next ==
    \/ Tick
    \/ \E p \in Priorities : add_generation_job(p)
    \/ \E w \in Workers : ClaimQuery(w)
    \/ \E w \in Workers : ClaimUpdate(w)
    \/ nResolve < MaxResolves /\ Resolve

Spec == Init /\ [][Next]_vars

(***************************************************************************)
(* The claim protocol alone: the clock stands still and the resolvers pass *)
(* no result list and no error text (the defaults of the signature).       *)
(***************************************************************************)
ResolvePlain ==
    \E j \in DOMAIN jobs \cup {UnknownJob}, s \in TerminalStatuses :
        update_generation_job_status(j, s, Null, Null)

NextClaim ==
    \/ \E p \in Priorities : add_generation_job(p)
    \/ \E w \in Workers : ClaimQuery(w)
    \/ \E w \in Workers : ClaimUpdate(w)
    \/ nResolve < FewResolves /\ ResolvePlain

SpecClaim == Init /\ [][NextClaim]_vars

(***************************************************************************)
(* The recovery sweep beside the claim protocol; every job is enqueued     *)
(* with the default priority.                                              *)
(***************************************************************************)
DefaultPriority == 2

NextSweep ==
    \/ add_generation_job(DefaultPriority)
    \/ \E w \in Workers : ClaimQuery(w)
    \/ \E w \in Workers : ClaimUpdate(w)
    \/ nResolve < FewResolves /\ ResolvePlain
    \/ get_uncompleted_processing_jobs

SpecSweep == Init /\ [][NextSweep]_vars

(***************************************************************************)
(* Draining: DrainJobs rows were enqueued, in the order of their ids, each *)
(* at the clock reading of the one before or at the next one (so rows may  *)
(* share created_at), each with some priority; from then                   *)
(* on only the workers run, each polling get_next_generation_job in a loop *)
(* (every worker that can take a step eventually takes one).               *)
(***************************************************************************)
DrainIds == 1..DrainJobs

InitDrain ==
    /\ \E p \in [DrainIds -> Priorities], c \in [DrainIds -> DrainIds] :
          /\ c[1] = 1
          /\ \A i \in DrainIds \ {1} : c[i] \in {c[i - 1], c[i - 1] + 1}
          /\ jobs = [i \in DrainIds |-> NewJobRow(i, p[i], c[i])]
          /\ now = c[DrainJobs]
    /\ wpc = [w \in Workers |-> "idle"]
    /\ wjob = [w \in Workers |-> NoneJob]
    /\ wlower = [w \in Workers |-> {}]
    /\ wret = [w \in Workers |-> NoneJob]
    /\ claimLog = <<>>
    /\ nResolve = 0
    /\ lastResolve = NoResolve
    /\ resolved = {}
    /\ staleRet = {}
    /\ faults = <<>>
    /\ users = <<>>
    /\ lpc = [p \in Callers |-> "idle"]
    /\ lframe = [p \in Callers |-> NoFrame]
    /\ lret = [p \in Callers |-> NoReturn]
    /\ expected = [u \in UserIds |-> 0]
    /\ nrows = [u \in UserIds |-> 0]
    /\ hook = NoHook

Poll(w) == ClaimQuery(w) \/ ClaimUpdate(w)

NextDrain == \E w \in Workers : Poll(w)

SpecDrain ==
    InitDrain /\ [][NextDrain]_vars /\ \A w \in Workers : WF_vars(Poll(w))

(***************************************************************************)
(* Producers beside the worker pool: jobs are enqueued, with either        *)
(* priority and as the clock advances, while the workers poll.             *)
(***************************************************************************)
NextOrder ==
    \/ Tick
    \/ \E p \in Priorities : add_generation_job(p)
    \/ \E w \in Workers : ClaimQuery(w)
    \/ \E w \in Workers : ClaimUpdate(w)

SpecOrder == Init /\ [][NextOrder]_vars

(***************************************************************************)
(* Resolvers that pass any text as status: the parameter is a str and the  *)
(* function does not look at it before building update_data.               *)
(***************************************************************************)
StatusInputs == TerminalStatuses \cup {"pending", "done"}

ResolveAny ==
    \E j \in DOMAIN jobs \cup {UnknownJob}, s \in StatusInputs :
        update_generation_job_status(j, s, Null, Null)

NextStatus ==
    \/ add_generation_job(DefaultPriority)
    \/ \E w \in Workers : ClaimQuery(w)
    \/ \E w \in Workers : ClaimUpdate(w)
    \/ nResolve < MaxResolves /\ ResolveAny

SpecStatus == Init /\ [][NextStatus]_vars

(***************************************************************************)
(* The queue over a storage service that may fail: any storage call of a   *)
(* producer, a worker or a resolver may raise.                             *)
(***************************************************************************)
StorageFault ==
    \/ add_generation_job_raise
    \/ \E w \in Workers : ClaimQueryRaise(w)
    \/ \E w \in Workers : ClaimUpdateRaise(w)
    \/ /\ nResolve < FewResolves
       /\ \E j \in DOMAIN jobs \cup {UnknownJob}, s \in TerminalStatuses :
             update_generation_job_status_raise(j, s, Null, Null)

NextFault ==
    \/ add_generation_job(DefaultPriority)
    \/ \E w \in Workers : ClaimQuery(w)
    \/ \E w \in Workers : ClaimUpdate(w)
    \/ nResolve < FewResolves /\ ResolvePlain
    \/ Len(faults) < MaxFaults /\ StorageFault

SpecFault == Init /\ [][NextFault]_vars

(***************************************************************************)
(* The ledger, one call at a time: a single caller of add_user,            *)
(* update_user_points and update_user_priority, so that a call ends before *)
(* the next begins.                                                        *)
(***************************************************************************)
LedgerStep(p) ==
    \/ \E u \in UserIds, r \in ReferrerInputs, i \in InitialPoints :
          add_user_call(p, u, r, i)
    \/ add_user_read(p)
    \/ add_user_insert(p)
    \/ \E u \in UserIds, a \in Amounts : update_user_points_call(p, u, a)
    \/ update_user_points_read(p)
    \/ update_user_points_write(p)
    \/ \E u \in UserIds, n \in PriorityInputs : update_user_priority_call(p, u, n)
    \/ update_user_priority_read(p)
    \/ update_user_priority_write(p)

NextLedgerSeq == LedgerStep(1)

SpecLedgerSeq == Init /\ [][NextLedgerSeq]_vars

(***************************************************************************)
(* The balance under concurrency: the callers are separate processes (the  *)
(* webhook server's workers crediting purchases, the bot), each creating   *)
(* accounts and applying amounts; their storage calls interleave.          *)
(***************************************************************************)
BalanceStep(p) ==
    \/ \E u \in UserIds, i \in InitialPoints : add_user_call(p, u, NoReferrer, i)
    \/ add_user_read(p)
    \/ add_user_insert(p)
    \/ \E u \in UserIds, a \in Amounts : update_user_points_call(p, u, a)
    \/ update_user_points_read(p)
    \/ update_user_points_write(p)

NextBalance == \E p \in Callers : BalanceStep(p)

SpecBalance == Init /\ [][NextBalance]_vars

(***************************************************************************)
(* The priority level under concurrency: the callers are separate          *)
(* processes (the webhook server's workers handling payment events),       *)
(* each creating accounts and calling update_user_priority with the        *)
(* priority_boost of its event; their storage calls interleave.            *)
(***************************************************************************)
PriorityStep(p) ==
    \/ \E u \in UserIds : add_user_call(p, u, NoReferrer, 0)
    \/ add_user_read(p)
    \/ add_user_insert(p)
    \/ \E u \in UserIds, n \in PriorityInputs : update_user_priority_call(p, u, n)
    \/ update_user_priority_read(p)
    \/ update_user_priority_write(p)

NextPriority == \E p \in Callers : PriorityStep(p)

SpecPriority == Init /\ [][NextPriority]_vars

(***************************************************************************)
(* Account creation under concurrency: the callers are separate processes  *)
(* (bot instances meeting a user for the first time), each calling         *)
(* add_user; their storage calls interleave.                               *)
(***************************************************************************)
\* <<referred_by, initial_points>> of a call: the defaults of the signature,
\* and a referred user given a welcome balance
CreateInputs == {<<NoReferrer, 0>>, <<1, 1>>}

CreateStep(p) ==
    \/ \E u \in UserIds, a \in CreateInputs : add_user_call(p, u, a[1], a[2])
    \/ add_user_read(p)
    \/ add_user_insert(p)

NextCreate == \E p \in Callers : CreateStep(p)

SpecCreate == Init /\ [][NextCreate]_vars

(***************************************************************************)
(* The payment webhook: one process creates accounts (add_user with the    *)
(* defaults of its signature) and handles payment events, one at a time.   *)
(***************************************************************************)
NotifyOutcomes == {"sent", "failed", "no_bot"}

NextHook ==
    \/ /\ hook.pc = "idle"
       /\ \E u \in UserIds : add_user_call(HookCaller, u, NoReferrer, 0)
    \/ add_user_read(HookCaller)
    \/ add_user_insert(HookCaller)
    \/ \E e \in EventInputs : stripe_webhook_begin(e)
    \/ update_user_points_read(HookCaller)
    \/ update_user_points_write(HookCaller)
    \/ stripe_webhook_priority
    \/ update_user_priority_read(HookCaller)
    \/ update_user_priority_write(HookCaller)
    \/ \E o \in NotifyOutcomes : stripe_webhook_notify(o)

SpecHook == Init /\ [][NextHook]_vars

(***************************************************************************)
(* Claims                                                                  *)
(***************************************************************************)
IsTerminal(status) == status \in TerminalStatuses

\* C1: each job id is returned by at most one successful
\* get_next_generation_job call, whatever the interleaving of the workers'
\* selects and conditional updates: the history of successful claims holds
\* no id twice, and no two workers hold the same job as their return value.
C1_NoDuplicateClaim ==
    /\ \A i, k \in DOMAIN claimLog : i # k => claimLog[i] # claimLog[k]
    /\ \A w1, w2 \in Workers :
          (w1 # w2 /\ wret[w1] # NoneJob) => wret[w1].id # wret[w2].id

\* C1 witness: one worker has won the claim of a job while another worker,
\* whose select returned the same job, has its conditional update pending.
C1_Witness ==
    \E w1, w2 \in Workers :
        /\ w1 # w2
        /\ wret[w1] # NoneJob
        /\ wpc[w2] = "update"
        /\ wjob[w2].id = wret[w1].id
        /\ wret[w1].id \in {claimLog[i] : i \in DOMAIN claimLog}

\* C2: starting from DrainJobs pending jobs, with workers that keep polling,
\* eventually no job is pending any more, and by then exactly DrainJobs
\* claims have succeeded, one for each job.
Drained == \A j \in DOMAIN jobs : jobs[j].status # "pending"

C2_EventuallyDrained ==
    /\ <>[]Drained
    /\ [](Drained => /\ Len(claimLog) = DrainJobs
                     /\ {claimLog[i] : i \in DOMAIN claimLog} = DOMAIN jobs)

\* C2 witness: every job has been claimed, by DrainJobs successful claims.
C2_Witness ==
    /\ Drained
    /\ Len(claimLog) = DrainJobs
    /\ \A j \in DrainIds : jobs[j].status = "processing"

\* C3: the row a get_next_generation_job call selects has the smallest
\* (priority_level, created_at) of all rows pending at the time of its
\* select, priority compared first, and a successful call returns that row;
\* with A = job 1 (priority 2, t1), B = job 2 (priority 1, t2 > t1) and
\* C = job 3 (priority 1, t3 > t2) the claims of these jobs come in the
\* order B, C, A.
LowestPending(r, table) ==
    /\ r \in table
    /\ r.status = "pending"
    /\ \A o \in table :
          o.status = "pending" =>
             \/ r.priority_level < o.priority_level
             \/ r.priority_level = o.priority_level /\ r.created_at <= o.created_at

IsPrefix(s, t) == Len(s) <= Len(t) /\ \A i \in DOMAIN s : s[i] = t[i]

ExampleABC ==
    /\ {1, 2, 3} \subseteq DOMAIN jobs
    /\ jobs[1].priority_level = 2
    /\ jobs[2].priority_level = 1
    /\ jobs[3].priority_level = 1
    /\ jobs[1].created_at < jobs[2].created_at
    /\ jobs[2].created_at < jobs[3].created_at

InABC(j) == j \in {1, 2, 3}

C3_ClaimsLowestPending ==
    /\ [][\A w \in Workers :
            /\ (wpc[w] = "idle" /\ wpc'[w] = "update")
                  => LowestPending(wjob'[w], {jobs[i] : i \in DOMAIN jobs})
            /\ (wpc[w] = "update" /\ wret'[w] # NoneJob)
                  => /\ wret'[w].id = wjob[w].id
                     /\ wret'[w].priority_level = wjob[w].priority_level
                     /\ wret'[w].created_at = wjob[w].created_at]_vars
    /\ [](ExampleABC => IsPrefix(SelectSeq(claimLog, InABC), <<2, 3, 1>>))

\* C3 witness: the jobs A, B, C of the example have been claimed, in the
\* order B, C, A.
C3_Witness ==
    /\ ExampleABC
    /\ SelectSeq(claimLog, InABC) = <<2, 3, 1>>

\* C4: update_generation_job_status is idempotent: a second call with the
\* arguments of the call before it leaves status, completed_at,
\* output_files_urls and error_message of the row as the first call left them.
ResultFields(row) ==
    <<row.status, row.completed_at, row.output_files_urls, row.error_message>>

SameArgs(a, b) ==
    /\ a.job_id = b.job_id
    /\ a.status = b.status
    /\ a.urls = b.urls
    /\ a.err = b.err

C4_ResolveIdempotent ==
    [][(/\ nResolve' = nResolve + 1
        /\ SameArgs(lastResolve', lastResolve)
        /\ lastResolve.job_id \in DOMAIN jobs)
       => ResultFields(jobs'[lastResolve.job_id])
            = ResultFields(jobs[lastResolve.job_id])]_vars

\* C5: a job's status only moves forward, pending -> processing -> terminal:
\* no step puts a job back to pending or to processing, and no step changes
\* one terminal status into another.
StatusRank(status) ==
    IF status = "pending" THEN 0 ELSE IF status = "processing" THEN 1 ELSE 2

C5_StatusForwardOnly ==
    [][\A j \in DOMAIN jobs :
         /\ StatusRank(jobs'[j].status) >= StatusRank(jobs[j].status)
         /\ IsTerminal(jobs[j].status) => jobs'[j].status = jobs[j].status]_vars

\* C6: update_user_priority on an existing account sets priority_level to
\* the candidate and returns True exactly when the candidate is below the
\* current level; otherwise it returns False and leaves the table as it was
\* (so 1 followed by 3 leaves 1).
C6_RaisePriorityIfBetter ==
    [][\A p \in Callers :
         LET u == lframe[p].user_id
             c == lframe[p].new_priority_level
         IN (/\ lpc[p] \in {"update_user_priority", "priority_write"}
             /\ lpc'[p] = "idle"
             /\ u \in DOMAIN users)
            => IF c < users[u].priority_level
               THEN /\ lret'[p].value = TRUE
                    /\ users' = [users EXCEPT ![u].priority_level = c]
               ELSE /\ lret'[p].value = FALSE
                    /\ users' = users]_vars

\* C6 witness: the account is at level 1 and a call with candidate 3 has
\* just returned False.
C6_Witness ==
    \E p \in Callers :
        /\ lret[p].op = "update_user_priority"
        /\ lret[p].arg = 3
        /\ lret[p].value = FALSE
        /\ lret[p].user_id \in DOMAIN users
        /\ users[lret[p].user_id].priority_level = 1

\* C7: get_uncompleted_processing_jobs returns exactly the rows whose stored
\* status is processing: every job a claim has returned and no resolve has
\* updated is in the result, and no job a resolve has updated is in it.
Claimed == {claimLog[i] : i \in DOMAIN claimLog}

C7_SweepListsProcessing ==
    [][get_uncompleted_processing_jobs =>
         /\ staleRet' = {j \in DOMAIN jobs : jobs[j].status = "processing"}
         /\ \A j \in Claimed \ resolved : j \in staleRet'
         /\ \A j \in resolved : j \notin staleRet']_vars

\* C7 witness: a claimed job was resolved as failed and is absent from the
\* latest sweep result, which lists another job that is still claimed.
C7_Witness ==
    \E j \in DOMAIN jobs :
        /\ j \in Claimed
        /\ jobs[j].status = "failed"
        /\ j \notin staleRet
        /\ staleRet # {}
        /\ staleRet \subseteq Claimed \ resolved

\* C8: update_user_points on an existing account with balance b stores
\* b + amount and returns the row holding it; on an id with no account it
\* returns None, creates no account and changes no balance.
C8_ApplyBalanceDelta ==
    [][\A p \in Callers :
         LET u == lframe[p].user_id
             a == lframe[p].amount
         IN (/\ lpc[p] \in {"update_user_points", "points_write"}
             /\ lpc'[p] = "idle")
            => IF u \in DOMAIN users
               THEN /\ users' = [users EXCEPT ![u].points = users[u].points + a]
                    /\ lret'[p].value = users'[u]
                    /\ lret'[p].value.points = users[u].points + a
               ELSE /\ lret'[p].value = NoneUser
                    /\ users' = users]_vars

\* C8 witness: a call on an id with no account has returned None, beside an
\* account whose balance an earlier call raised to 2.
C8_Witness ==
    \E p \in Callers, u \in DOMAIN users :
        /\ lret[p].op = "update_user_points"
        /\ lret[p].user_id \notin DOMAIN users
        /\ lret[p].value = NoneUser
        /\ users[u].points = 2

\* C9: add_user on an id with no account returns True and stores the
\* account with the given initial points and referrer and the default
\* priority level, which is the least urgent level an account ever has;
\* add_user on an id that has an account returns False and leaves every
\* field of every account as it was, whatever arguments it is given.
C9_CreateAccountOnce ==
    /\ [][\A p \in Callers :
            LET f == lframe[p]
                u == lframe[p].user_id
            IN (/\ lpc[p] \in {"add_user", "add_user_insert"}
                /\ lpc'[p] = "idle")
               => IF u \in DOMAIN users
                  THEN /\ lret'[p].value = FALSE
                       /\ users' = users
                  ELSE /\ lret'[p].value = TRUE
                       /\ users' = (u :> [user_id |-> u,
                                          points |-> f.amount,
                                          referred_by |-> f.referred_by,
                                          priority_level |-> DefaultPriority])
                                      @@ users]_vars
    /\ [](\A u \in DOMAIN users : users[u].priority_level <= DefaultPriority)

\* C9 witness: a second add_user on an account whose balance and level have
\* changed since its creation, passing another initial balance and another
\* referrer, has returned False.
C9_Witness ==
    \E p \in Callers :
        /\ lret[p].op = "add_user"
        /\ lret[p].value = FALSE
        /\ lret[p].user_id \in DOMAIN users
        /\ users[lret[p].user_id].points = 2
        /\ lret[p].arg = 1
        /\ users[lret[p].user_id].priority_level < DefaultPriority

\* C10: when update_user_points calls on one account run concurrently, every
\* amount is applied: once no such call is in progress, the stored balance
\* is the initial balance plus the amounts of all the calls that returned.
InPointsCall(p, u) ==
    /\ lpc[p] \in {"update_user_points", "points_write"}
    /\ lframe[p].user_id = u

C10_ConcurrentDeltasApplied ==
    \A u \in DOMAIN users :
        (\A p \in Callers : ~InPointsCall(p, u)) => users[u].points = expected[u]

\* C11: the stored priority_level of an account never increases: no step,
\* in any interleaving of update_user_priority calls of concurrent callers
\* (different candidates, or the same candidate again), leaves an account
\* with a level numerically greater than the one it had before the step.
C11_PriorityNeverIncreases ==
    [][\A u \in DOMAIN users :
         users'[u].priority_level <= users[u].priority_level]_vars

\* C12 as stated: at the step where the conditional update of a
\* get_next_generation_job call moves job J to processing, no other job
\* that is pending at that instant has a strictly smaller
\* (priority_level, created_at) than J, whatever add_generation_job calls
\* and other claims are interleaved.
ClaimsJob(w, j) ==
    /\ wpc[w] = "update"
    /\ wret'[w] # NoneJob
    /\ wret'[w].id = j
    /\ jobs[j].status = "pending"
    /\ jobs'[j].status = "processing"

C12_LowestAtUpdate ==
    [][\A w \in Workers, j \in DOMAIN jobs :
         ClaimsJob(w, j) =>
            \A i \in DOMAIN jobs \ {j} :
               jobs[i].status = "pending" => ~KeyLess(jobs[i], jobs[j])]_vars

\* C12 amended: at the step where the conditional update of a
\* get_next_generation_job call moves job J to processing, no job that was
\* pending when that call's select ran has a strictly smaller
\* (priority_level, created_at) than J; a job enqueued between the select
\* and the update may have one.
C12_LowestAtQuery ==
    [][\A w \in Workers, j \in DOMAIN jobs :
         ClaimsJob(w, j) =>
            /\ wjob[w].id = j
            /\ wjob[w].priority_level = jobs[j].priority_level
            /\ wjob[w].created_at = jobs[j].created_at
            /\ wlower[w] = {}]_vars

\* C12 witness: job 1 (priority 2) has been claimed while job 2 (priority 1),
\* enqueued after the select of that claim and before its update, is pending.
C12_Witness ==
    /\ claimLog = <<1>>
    /\ {1, 2} \subseteq DOMAIN jobs
    /\ jobs[1].status = "processing"
    /\ jobs[1].priority_level = 2
    /\ jobs[2].status = "pending"
    /\ jobs[2].priority_level = 1
    /\ jobs[2].created_at < jobs[1].started_at

\* C13: in every state a job has no started_at exactly when its status is
\* pending (a job that is processing or terminal has one, also a job
\* resolved without having been claimed), and started_at is written only
\* by the step that moves the job from pending to processing and never
\* rewritten.
C13_StartedIffNotPending ==
    /\ [](\A j \in DOMAIN jobs :
            (jobs[j].started_at = NoTime) <=> (jobs[j].status = "pending"))
    /\ [][\A j \in DOMAIN jobs :
            jobs'[j].started_at # jobs[j].started_at
               => /\ jobs[j].status = "pending"
                  /\ jobs'[j].status = "processing"
                  /\ jobs[j].started_at = NoTime]_vars

\* C14: completed_at is set exactly once: a pending or processing job has
\* none, the step that moves a job into a terminal status writes it, and
\* once written no step changes it (whatever update_generation_job_status
\* call, repeated or different, follows).
C14_CompletedSetOnce ==
    /\ [](\A j \in DOMAIN jobs :
            jobs[j].status \in {"pending", "processing"}
               => jobs[j].completed_at = NoTime)
    /\ [][\A j \in DOMAIN jobs :
            /\ (~IsTerminal(jobs[j].status) /\ IsTerminal(jobs'[j].status))
                  => jobs'[j].completed_at # NoTime
            /\ jobs[j].completed_at # NoTime
                  => jobs'[j].completed_at = jobs[j].completed_at]_vars

\* C15: in every state a job has output_files_urls only if its status is
\* completed, and an error_message only if its status is failed, refunded
\* or canceled.
C15_ResultFieldsMatchStatus ==
    \A j \in DOMAIN jobs :
        /\ jobs[j].output_files_urls # Null => jobs[j].status = "completed"
        /\ jobs[j].error_message # Null
              => jobs[j].status \in {"failed", "refunded", "canceled"}

\* C16: when the conditional update of a get_next_generation_job call
\* matches no row because the job its select returned is no longer pending,
\* the call ends returning None: it does not return that job, runs no
\* further select or update, and leaves every row of the table as it was
\* (status and started_at of the winner included).
LosesRace(w) ==
    /\ wpc[w] = "update"
    /\ jobs[wjob[w].id].status # "pending"
    /\ <<wpc'[w], wjob'[w], wret'[w]>> # <<wpc[w], wjob[w], wret[w]>>

C16_LostRaceReturnsEmpty ==
    [][\A w \in Workers :
         LosesRace(w) =>
            /\ wret'[w] = NoneJob
            /\ wpc'[w] = "idle"
            /\ wjob'[w] = NoneJob
            /\ jobs' = jobs
            /\ claimLog' = claimLog]_vars

\* C16 witness: a worker is about to run its conditional update on a job
\* that another worker, holding it as its return value, claimed at an
\* earlier clock reading.
C16_Witness ==
    \E w1, w2 \in Workers :
        /\ w1 # w2
        /\ wpc[w2] = "update"
        /\ wret[w1] # NoneJob
        /\ wret[w1].id = wjob[w2].id
        /\ jobs[wjob[w2].id].status = "processing"
        /\ jobs[wjob[w2].id].started_at < now

\* C17: in every state the status of every job is one of pending,
\* processing, completed, failed, refunded, canceled, and an
\* update_generation_job_status call whose status argument is not one of
\* completed, failed, refunded, canceled leaves the table as it was.
AllStatuses == {"pending", "processing"} \cup TerminalStatuses

C17_StatusClosedSet ==
    /\ [](\A j \in DOMAIN jobs : jobs[j].status \in AllStatuses)
    /\ [][(nResolve' = nResolve + 1 /\ lastResolve'.status \notin TerminalStatuses)
            => jobs' = jobs]_vars

\* C18: a storage failure during a queue call is reported to the caller:
\* an add_generation_job whose insert fails returns the failure value and
\* queues no row, a get_next_generation_job whose storage call fails
\* returns something other than what it returns for an empty queue, and an
\* update_generation_job_status whose update fails returns something other
\* than what it returns when the job was resolved.
C18_StorageFailuresReported ==
    [][Len(faults') = Len(faults) + 1 =>
         LET f == faults'[Len(faults')]
         IN /\ f.op = "add_generation_job" => (f.ret = PyNone /\ jobs' = jobs)
            /\ f.op = "get_next_generation_job" => f.ret # NoneJob
            /\ f.op = "update_generation_job_status" => f.ret # PyNone]_vars

\* C19: when bot.send_message raises after the handler's update_user_points
\* and update_user_priority calls, the step changes no account and the
\* handler responds 200 "ok"; and once the handler has answered such an
\* event for an account that existed, the account holds its balance of
\* before the event plus points_awarded and the better of its level of
\* before and priority_boost.
Better(a, b) == IF a < b THEN a ELSE b

C19_NotifyFailureKeepsLedger ==
    /\ [][(hook.pc = "priority" /\ hook'.pc = "idle" /\ hook'.notified = "failed")
            => /\ users' = users
               /\ hook'.response = [status_code |-> 200, status |-> "ok"]]_vars
    /\ []((hook.pc = "idle" /\ hook.notified = "failed" /\ hook.before # NoneUser)
            => /\ users[hook.id].points = hook.before.points + hook.points_awarded
               /\ users[hook.id].priority_level
                     = Better(hook.before.priority_level, hook.priority_boost))

\* C19 witness: the handler has answered 200 to an event that credited one
\* point to an account and raised it from level 2 to level 1, the
\* confirmation message having failed.
C19_Witness ==
    /\ hook.pc = "idle"
    /\ hook.notified = "failed"
    /\ hook.response.status_code = 200
    /\ hook.before # NoneUser
    /\ hook.before.priority_level = 2
    /\ hook.points_awarded = 1
    /\ users[hook.id].points = hook.before.points + 1
    /\ users[hook.id].priority_level = 1

\* C20: an event that cannot be matched (package_id not in POINT_PACKAGES,
\* telegram_id missing or not a number, or no account with that id), or
\* whose project is not PROJECT_IDENTIFIER, changes no account while it is
\* handled and is answered with status code 200.
Unmatched(e) ==
    \/ e.project # PROJECT_IDENTIFIER
    \/ e.package_id \notin POINT_PACKAGES
    \/ ~IsDigits(e.telegram_id)
    \/ int(e.telegram_id) \notin DOMAIN users

C20_UnmatchedEventAcknowledged ==
    [][((hook'.n = hook.n + 1 \/ hook.pc # "idle") /\ Unmatched(hook'.event))
         => /\ users' = users
            /\ hook'.pc = "idle" => hook'.response.status_code = 200]_vars

\* C21: when add_user calls for one user_id run concurrently (the get_user
\* of each may run before the insert of any), at most one of them returns
\* True: a call returns True only by the insert that puts the first row of
\* that id into the table; the table never holds more than one row of an
\* id; and the points and referred_by of that row are, from then on, those
\* the call that returned True was given.
ReturnsFromAddUser(p) ==
    /\ lpc[p] \in {"add_user", "add_user_insert"}
    /\ lpc'[p] = "idle"

C21_ConcurrentCreateOnce ==
    /\ [](\A u \in UserIds : /\ nrows[u] <= 1
                             /\ (u \in DOMAIN users) <=> (nrows[u] = 1))
    /\ [][\A p \in Callers :
            (ReturnsFromAddUser(p) /\ lret'[p].value = TRUE)
               => LET u == lframe[p].user_id
                  IN /\ nrows[u] = 0
                     /\ nrows'[u] = 1
                     /\ users'[u].points = lframe[p].amount
                     /\ users'[u].referred_by = lframe[p].referred_by]_vars
    /\ [][\A u \in DOMAIN users : users'[u] = users[u]]_vars

\* C21 witness: two callers passed the existence check for the same id
\* before either inserted; one has inserted and returned True, and its
\* row is stored; the other, given another balance and another referrer,
\* is about to insert.
C21_Witness ==
    \E p1, p2 \in Callers :
        /\ p1 # p2
        /\ lret[p1].op = "add_user" /\ lret[p1].value = TRUE
        /\ lpc[p2] = "add_user_insert"
        /\ lframe[p2].user_id = lret[p1].user_id
        /\ users[lret[p1].user_id].points = lret[p1].arg
        /\ lframe[p2].amount # users[lret[p1].user_id].points
        /\ lframe[p2].referred_by # users[lret[p1].user_id].referred_by

====
